---- MODULE Spec2Model ----
(***************************************************************************)
(* Yankees offseason sentiment: the news collector, the odds collector and *)
(* the sentiment pipeline as one sequential state machine over the shared  *)
(* persisted store (articles, sentiment_scores, odds_snapshots).           *)
(*                                                                         *)
(* Every top-level operation runs to its end before the next one starts    *)
(* (the program has no concurrency); its steps are the statements of its   *)
(* try / except / finally block.                                           *)
(***************************************************************************)
EXTENDS Integers, Sequences, FiniteSets, TLC

VARIABLES
    articles,       \* committed rows of table articles
    scores,         \* committed rows of table sentiment_scores
    snapshots,      \* committed rows of table odds_snapshots, in insertion order
    op,             \* the running operation: "idle", "news", "odds", "analyze"
    pc,             \* its position: "fetch", "loop", "commit", "rollback", "close"
    odds_data,      \* the payload the odds API returned to the current call
    items,          \* the list its for-loop walks
    idx,            \* index of the next element of items
    stats,          \* its counters (the dict / int it returns)
    pending,        \* rows added to the session and not yet committed
    err,            \* the exception being propagated, NoErr when none
    session,        \* "none", "open", "closed": the session of the current call
    calls,          \* of the current call: sessions opened, commits, rollbacks
    pre,            \* the committed store as it was when the current call started
    hist,           \* what earlier analysis runs left behind (see AnalyzeClose)
    tokenizer,      \* SentimentAnalyzer._tokenizer is not None
    model,          \* SentimentAnalyzer._model is not None
    inits,          \* successful from_pretrained calls: [tokenizer, model]
    lastCall,       \* the analyze_text call of the last step: its text, what it did
    conv            \* the conversion call of the last step: its argument, what it did

vars == <<articles, scores, snapshots, op, pc, odds_data, items, idx, stats,
          pending, err, session, calls, pre, hist, tokenizer, model, inits,
          lastCall, conv>>

storeVars == <<articles, scores, snapshots>>
analyzerVars == <<tokenizer, model, inits, lastCall>>

----------------------------------------------------------------------------
(* Bounds of the model. *)

MaxArticles == 3    \* rows of table articles when the behaviour starts
MaxFetch == 2       \* records in one news feed
MaxEvents == 1      \* events in one odds payload
MaxBookmakers == 1  \* bookmakers of one event
MaxSnapshots == 3   \* an odds run starts only while fewer rows are stored
MaxAmerican == 10   \* the conversions are called on every int of -MaxAmerican..MaxAmerican

----------------------------------------------------------------------------
(* Python values. *)

None == "<None>"
NoErr == "<no error>"

\* The characters of the strings the model uses; str operations work on these.
Chars(s) ==
    CASE s = "" -> <<>>
      [] s = " " -> <<" ">>
      [] s = "  " -> <<" ", " ">>
      [] s = "a" -> <<"a">>
      [] s = "b" -> <<"b">>
      [] s = " a" -> <<" ", "a">>
      [] s = "yankees" -> <<"y", "a", "n", "k", "e", "e", "s">>
      [] s = "New York Yankees" ->
            <<"N", "e", "w", " ", "Y", "o", "r", "k", " ",
              "Y", "a", "n", "k", "e", "e", "s">>
      [] s = "YANKEES" -> <<"Y", "A", "N", "K", "E", "E", "S">>
      [] s = "Boston Red Sox" ->
            <<"B", "o", "s", "t", "o", "n", " ", "R", "e", "d", " ",
              "S", "o", "x">>

\* bool(x) of an optional string: None and "" are falsy.
Truthy(s) == s # None /\ s # ""

\* str.lower() on a character sequence.
LowerChar(c) ==
    CASE c = "A" -> "a" [] c = "B" -> "b" [] c = "E" -> "e" [] c = "K" -> "k"
      [] c = "N" -> "n" [] c = "R" -> "r" [] c = "S" -> "s" [] c = "Y" -> "y"
      [] OTHER -> c

Lower(cs) == [i \in 1..Len(cs) |-> LowerChar(cs[i])]

\* sub in cs
Contains(sub, cs) ==
    \E k \in 0..(Len(cs) - Len(sub)) :
        \A i \in 1..Len(sub) : cs[k + i] = sub[i]

IsSpace(c) == c = " "

\* str.strip() on a character sequence.
RECURSIVE LStrip(_)
LStrip(cs) ==
    IF cs = <<>> THEN <<>>
    ELSE IF IsSpace(Head(cs)) THEN LStrip(Tail(cs)) ELSE cs

RECURSIVE RStrip(_)
RStrip(cs) ==
    IF cs = <<>> THEN <<>>
    ELSE IF IsSpace(cs[Len(cs)]) THEN RStrip(SubSeq(cs, 1, Len(cs) - 1)) ELSE cs

Strip(cs) == RStrip(LStrip(cs))

\* " ".join(parts) on character sequences.
RECURSIVE Join(_)
Join(parts) ==
    IF parts = <<>> THEN <<>>
    ELSE IF Len(parts) = 1 THEN parts[1]
    ELSE parts[1] \o <<" ">> \o Join(Tail(parts))

\* All sequences over S of length at most n.
SeqsUpTo(S, n) == UNION {[1..k -> S] : k \in 0..n}

Abs(x) == IF x < 0 THEN -x ELSE x

----------------------------------------------------------------------------
(* The declarative models: the mapped attributes of each class.  The      *)
(* default constructor of a declarative class raises TypeError for a      *)
(* keyword that is no attribute of the class.                             *)

ArticleAttrs ==
    {"id", "source", "author", "title", "description", "url",
     "published_at", "collected_at", "sentiment"}

SentimentScoreAttrs ==
    {"id", "article_id", "positive", "negative", "neutral", "compound",
     "model_used", "analyzed_at", "article"}

OddsSnapshotAttrs ==
    {"id", "bookmaker", "market", "american_odds", "decimal_odds",
     "implied_probability", "snapshot_at", "collected_at"}

ConstructorAccepts(kwargs, attrs) == kwargs \subseteq attrs

\* The committed store as one value.
Store == [articles |-> articles, scores |-> scores, snapshots |-> snapshots]

\* Article rows present when the behaviour starts: the store is a file that
\* outlives every run, so the rows a run finds are an input to it.  Non-null
\* URLs are distinct; row 2 has no URL and only whitespace text.
SeedArticle(i) ==
    [id |-> i,
     url |-> IF i = 1 THEN "u1" ELSE IF i = 3 THEN "u2" ELSE None,
     title |-> IF i = 1 THEN "a" ELSE IF i = 2 THEN " " ELSE IF i = 3 THEN "" ELSE "a",
     description |-> IF i = 2 THEN None ELSE "b"]

----------------------------------------------------------------------------
(* Initial state: no operation running, a store holding the first n seed   *)
(* articles and nothing else, a fresh SentimentAnalyzer.                   *)

ZeroStats ==
    [fetched |-> 0, new |-> 0, duplicates |-> 0, stored |-> 0,
     processed |-> 0, skipped |-> 0]

NoCalls == [opened |-> 0, commits |-> 0, rollbacks |-> 0]

\* A text argument: None, or a str given by its characters.
NoneText == [none |-> TRUE, chars |-> <<>>]
Str(cs) == [none |-> FALSE, chars |-> cs]

\* Scores are in tenths: 10 stands for 1.0.
NoScores == [positive |-> 0, negative |-> 0, neutral |-> 0, compound |-> 0]

\* No conversion has been called.
NoConv == [fn |-> "none", american |-> None, raised |-> NoErr, value |-> None]

NoCall == [called |-> FALSE, text |-> NoneText, outcome |-> "none",
           scores |-> NoScores, loaded |-> FALSE, invoked |-> FALSE]

Init ==
    /\ \E n \in 0..MaxArticles : articles = {SeedArticle(i) : i \in 1..n}
    /\ scores = {}
    /\ snapshots = <<>>
    /\ op = "idle"
    /\ pc = "idle"
    /\ odds_data = <<>>
    /\ items = <<>>
    /\ idx = 1
    /\ stats = ZeroStats
    /\ pending = <<>>
    /\ err = NoErr
    /\ session = "none"
    /\ calls = NoCalls
    /\ pre = [articles |-> articles, scores |-> {}, snapshots |-> <<>>]
    /\ hist = [returned |-> FALSE, clean |-> FALSE]
    /\ tokenizer = FALSE
    /\ model = FALSE
    /\ inits = [tokenizer |-> 0, model |-> 0]
    /\ lastCall = NoCall
    /\ conv = NoConv

----------------------------------------------------------------------------
(* The try / except / finally skeleton the three operations share.         *)

\* init_db(); session = get_session(); then the try block is entered.
Begin(o) ==
    /\ op = "idle"
    /\ op' = o
    /\ pc' = "fetch"
    /\ session' = "open"
    /\ calls' = [NoCalls EXCEPT !.opened = 1]
    /\ pre' = Store
    /\ odds_data' = <<>>
    /\ items' = <<>>
    /\ idx' = 1
    /\ stats' = ZeroStats
    /\ pending' = <<>>
    /\ err' = NoErr
    /\ UNCHANGED <<conv, storeVars, hist, analyzerVars>>

\* Mutant of Raise: no except clause, the exception goes straight to finally.
RaiseToFinally(e) ==
    /\ pc' = "close"
    /\ err' = e

\* An exception leaves the try block: the except clause runs next.
Raise(e) ==
    /\ pc' = "rollback"
    /\ err' = e

\* Mutant of Rollback: the except clause commits what the session holds.
RollbackKeeping(o) ==
    /\ op = o
    /\ pc = "rollback"
    /\ articles' = IF o = "news"
                   THEN articles \cup {pending[i] : i \in 1..Len(pending)}
                   ELSE articles
    /\ snapshots' = IF o = "odds" THEN snapshots \o pending ELSE snapshots
    /\ pending' = <<>>
    /\ calls' = [calls EXCEPT !.rollbacks = @ + 1]
    /\ pc' = "close"
    /\ UNCHANGED <<conv, scores, op, odds_data, items, idx, stats, err, session, pre,
                   hist, analyzerVars>>

\* except Exception as e: session.rollback(); raise e
Rollback(o) ==
    /\ op = o
    /\ pc = "rollback"
    /\ pending' = <<>>
    /\ calls' = [calls EXCEPT !.rollbacks = @ + 1]
    /\ pc' = "close"
    /\ UNCHANGED <<conv, storeVars, op, items, idx, stats, err, session, odds_data, pre,
                   hist, analyzerVars>>

\* finally: session.close().  The return value (err = NoErr) or the exception
\* reaches the caller and the locals of the call are gone.
Close(o) ==
    /\ op = o
    /\ pc = "close"
    /\ session' = "closed"
    /\ calls' = NoCalls
    /\ op' = "idle"
    /\ pc' = "idle"
    /\ odds_data' = <<>>
    /\ items' = <<>>
    /\ idx' = 1
    /\ stats' = ZeroStats
    /\ pending' = <<>>
    /\ err' = NoErr
    /\ pre' = Store
    /\ lastCall' = NoCall
    /\ UNCHANGED <<conv, storeVars, tokenizer, model, inits>>

----------------------------------------------------------------------------
(* News collector.                                                         *)

Urls == {None, "", "u1", "u2", "u3"}
NewsRecords == [url : Urls, title : {"a"}]
Feeds == SeqsUpTo(NewsRecords, MaxFetch)

\* The keywords collect_and_store passes to Article(...).
ArticleKwargs ==
    {"source", "author", "title", "description", "url", "published_at", "content"}

\* session.query(Article).filter_by(url=url).first(): the session autoflushes
\* before a query, so rows added earlier in the same run are visible to it.
Existing(url, visible) == \E a \in visible : a.url = url

\* Mutant of NewsRecordStep: every record that carries a URL is inserted.
NewsRecordStepNoLookup(rec, visible) ==
    IF ~Truthy(rec.url) THEN "skip" ELSE "add"

\* What one pass of the for-loop body does with a fetched record.
NewsRecordStep(rec, visible) ==
    IF ~Truthy(rec.url) THEN "skip"
    ELSE IF Existing(rec.url, visible) THEN "duplicate"
    ELSE IF ConstructorAccepts(ArticleKwargs, ArticleAttrs) THEN "add"
    ELSE "TypeError"

\* Mutant of NewsStats: a duplicate is not counted.
NewsStatsNoDuplicates(st, outcome) ==
    CASE outcome = "add" -> [st EXCEPT !.new = @ + 1]
      [] OTHER -> st

\* The counters after one pass.
NewsStats(st, outcome) ==
    CASE outcome = "duplicate" -> [st EXCEPT !.duplicates = @ + 1]
      [] outcome = "add" -> [st EXCEPT !.new = @ + 1]
      [] OTHER -> st

PendingSet == {pending[i] : i \in 1..Len(pending)}

NextArticleId(visible) ==
    IF visible = {} THEN 1
    ELSE 1 + (CHOOSE m \in {a.id : a \in visible} :
                  \A a \in visible : a.id <= m)

\* Article(source=..., title=article_data.get("title", ""), url=url, ...)
NewArticle(rec, visible) ==
    [id |-> NextArticleId(visible),
     url |-> rec.url,
     title |-> rec.title,
     description |-> None]

NewsBegin == Begin("news")

\* articles = self.search_yankees_articles(...): the GET raises HTTPError on a
\* non-2xx answer, otherwise the feed is whatever the API returns.
NewsFetch ==
    /\ op = "news"
    /\ pc = "fetch"
    /\ \/ /\ Raise("HTTPError")
          /\ UNCHANGED <<items, stats>>
       \/ \E feed \in Feeds :
            /\ items' = feed
            /\ stats' = [ZeroStats EXCEPT !.fetched = Len(feed)]
            /\ pc' = IF feed = <<>> THEN "commit" ELSE "loop"
            /\ err' = NoErr
    /\ idx' = 1
    /\ UNCHANGED <<conv, storeVars, op, pending, session, odds_data, calls, pre, hist,
                   analyzerVars>>

\* One pass of "for article_data in articles".
NewsRecord ==
    /\ op = "news"
    /\ pc = "loop"
    /\ idx <= Len(items)
    /\ LET visible == articles \cup PendingSet
           outcome == NewsRecordStep(items[idx], visible)
       IN  IF outcome = "TypeError"
           THEN /\ Raise("TypeError")
                /\ UNCHANGED <<idx, stats, pending>>
           ELSE /\ stats' = NewsStats(stats, outcome)
                /\ pending' = IF outcome = "add"
                              THEN Append(pending, NewArticle(items[idx], visible))
                              ELSE pending
                /\ idx' = idx + 1
                /\ pc' = IF idx = Len(items) THEN "commit" ELSE "loop"
                /\ err' = NoErr
    /\ UNCHANGED <<conv, storeVars, op, items, session, odds_data, calls, pre, hist,
                   analyzerVars>>

\* session.commit(); return stats.  The commit may fail in the database.
NewsCommit ==
    /\ op = "news"
    /\ pc = "commit"
    /\ \/ /\ articles' = articles \cup PendingSet
          /\ pending' = <<>>
          /\ calls' = [calls EXCEPT !.commits = @ + 1]
          /\ pc' = "close"
          /\ hist' = IF pending = <<>> THEN hist
                     ELSE [returned |-> FALSE, clean |-> FALSE]
          /\ UNCHANGED err
       \/ /\ Raise("OperationalError")
          /\ UNCHANGED <<articles, pending, calls, hist>>
    /\ UNCHANGED <<conv, scores, snapshots, op, items, idx, stats, session, odds_data, pre,
                   analyzerVars>>

NewsRollback == Rollback("news")

NewsClose == Close("news") /\ UNCHANGED hist

NewsNext ==
    \/ NewsBegin
    \/ NewsFetch
    \/ NewsRecord
    \/ NewsCommit
    \/ NewsRollback
    \/ NewsClose

----------------------------------------------------------------------------
(* Python numbers.  An int is unbounded: it is kept as a sign and a        *)
(* magnitude, the magnitude as its base-2^15 digits, least significant     *)
(* first, without leading zero digits.  A float is an IEEE 754 binary64    *)
(* value >= 0 (the conversions produce no other): [m, e] stands for        *)
(* m * 2^e with m odd, or m = <<>> for 0.0.                                *)

LimbBits == 15
Base == 32768
MantissaBits == 53      \* significand of a binary64
MaxExponent == 1024     \* a finite binary64 is below 2^1024
MinExponent == -1074    \* the smallest positive binary64 is 2^-1074

Max2(a, b) == IF a < b THEN b ELSE a
Min2(a, b) == IF a < b THEN a ELSE b
TopF[S \in SUBSET Int] == CHOOSE x \in S : \A y \in S : y <= x
Top(S) == TopF[S]
BottomF[S \in SUBSET Int] == CHOOSE x \in S : \A y \in S : x <= y
Bottom(S) == BottomF[S]
Pow2(k) == <<1, 2, 4, 8, 16, 32, 64, 128, 256, 512, 1024, 2048, 4096, 8192,
             16384, 32768>>[k + 1]

BigNat == Seq(0..(Base - 1))

\* x without its leading zero digits.
TrimF[x \in BigNat] ==
    IF \A i \in 1..Len(x) : x[i] = 0 THEN <<>>
    ELSE SubSeq(x, 1, Top({i \in 1..Len(x) : x[i] # 0}))

Trim(x) == TrimF[x]

Limbs[n \in Nat] == IF n = 0 THEN <<>> ELSE <<n % Base>> \o Limbs[n \div Base]

Limb(x, i) == IF i >= 1 /\ i <= Len(x) THEN x[i] ELSE 0

\* int.bit_length()
BitLenF[x \in BigNat] ==
    IF x = <<>> THEN 0
    ELSE LimbBits * (Len(x) - 1)
         + Bottom({k \in 1..LimbBits : x[Len(x)] < Pow2(k)})

BitLen(x) == BitLenF[x]

\* Bit i of x, the lowest being bit 1.
Bit(x, i) ==
    (Limb(x, (i - 1) \div LimbBits + 1) \div Pow2((i - 1) % LimbBits)) % 2

\* a >= b
GEF[p \in BigNat \X BigNat] ==
    LET a == p[1]
        b == p[2]
    IN  IF Len(a) # Len(b) THEN Len(a) > Len(b)
        ELSE a = b \/ LET k == Top({i \in 1..Len(a) : a[i] # b[i]})
                      IN  a[k] > b[k]

GE(a, b) == GEF[<<a, b>>]

\* Digits i.. of a + b, given the carry into digit i.
AddFrom[p \in BigNat \X BigNat \X Nat \X Nat] ==
    LET a == p[1]
        b == p[2]
        i == p[3]
        s == Limb(a, i) + Limb(b, i) + p[4]
    IN  IF i > Len(a) /\ i > Len(b) THEN (IF p[4] = 0 THEN <<>> ELSE <<p[4]>>)
        ELSE <<s % Base>> \o AddFrom[<<a, b, i + 1, s \div Base>>]

BigAdd(a, b) == AddFrom[<<a, b, 1, 0>>]

\* Digits i.. of a - b for a >= b, given the borrow from digit i.
SubFrom[p \in BigNat \X BigNat \X Nat \X Nat] ==
    LET a == p[1]
        b == p[2]
        i == p[3]
        s == Limb(a, i) - Limb(b, i) - p[4]
    IN  IF i > Len(a) THEN <<>>
        ELSE <<s % Base>> \o SubFrom[<<a, b, i + 1, IF s < 0 THEN 1 ELSE 0>>]

BigSub(a, b) == Trim(SubFrom[<<a, b, 1, 0>>])

\* Digits i.. of a * t for a one-digit factor t (t <= 2 * Base - 1 is safe).
MulFrom[p \in BigNat \X Nat \X Nat \X Nat] ==
    LET a == p[1]
        t == p[2]
        i == p[3]
        s == Limb(a, i) * t + p[4]
    IN  IF i > Len(a) THEN (IF p[4] = 0 THEN <<>> ELSE <<p[4]>>)
        ELSE <<s % Base>> \o MulFrom[<<a, t, i + 1, s \div Base>>]

MulSmall(a, t) == IF t = 0 THEN <<>> ELSE MulFrom[<<a, t, 1, 0>>]

\* x * 2^k
ShlF[p \in BigNat \X Nat] ==
    IF p[1] = <<>> THEN <<>>
    ELSE [i \in 1..(p[2] \div LimbBits) |-> 0]
         \o MulSmall(p[1], Pow2(p[2] % LimbBits))

Shl(x, k) == ShlF[<<x, k>>]

\* x \div 2^k
ShrF[p \in BigNat \X Nat] ==
    LET x == p[1]
        w == p[2] \div LimbBits
        r == p[2] % LimbBits
    IN  IF w >= Len(x) THEN <<>>
        ELSE Trim([i \in 1..(Len(x) - w) |->
                     x[i + w] \div Pow2(r)
                     + (Limb(x, i + w + 1) % Pow2(r)) * Pow2(LimbBits - r)])

Shr(x, k) == ShrF[<<x, k>>]

\* The largest digit t in lo..hi with t * y <= r.
QDigit[p \in BigNat \X BigNat \X Nat \X Nat] ==
    LET r == p[1]
        y == p[2]
        lo == p[3]
        hi == p[4]
        mid == (lo + hi + 1) \div 2
    IN  IF lo = hi THEN lo
        ELSE IF GE(r, MulSmall(y, mid)) THEN QDigit[<<r, y, mid, hi>>]
        ELSE QDigit[<<r, y, lo, mid - 1>>]

\* Long division: digits i..1 of num are still to bring down, p[4] is the
\* remainder so far and p[5] the quotient digits found.
DivStep[p \in BigNat \X BigNat \X Nat \X BigNat \X BigNat] ==
    LET num == p[1]
        y == p[2]
        i == p[3]
        r1 == Trim(<<num[i]>> \o p[4])
        t == QDigit[<<r1, y, 0, Base - 1>>]
    IN  IF i = 0 THEN [q |-> Trim(p[5]), r |-> p[4]]
        ELSE DivStep[<<num, y, i - 1, BigSub(r1, MulSmall(y, t)), <<t>> \o p[5]>>]

\* divmod(num, y) for y > 0
DivMod(num, y) == DivStep[<<num, y, Len(num), <<>>, <<>>>>]

Float == [m : BigNat, e : Int]
FloatZero == [m |-> <<>>, e |-> 0]

\* m * 2^e with m made odd.
NormalizeF[p \in BigNat \X Int] ==
    LET m == p[1]
        tz == Bottom({i \in 1..BitLen(m) : Bit(m, i) = 1}) - 1
    IN  IF m = <<>> THEN FloatZero ELSE [m |-> Shr(m, tz), e |-> p[2] + tz]

Normalize(m, e) == NormalizeF[<<m, e>>]

\* The binary64 nearest to (q + f) * 2^e, ties to even, where 0 <= f < 1 and
\* sticky says f # 0 (then q has more than MantissaBits bits).
RoundF[p \in BigNat \X BOOLEAN \X Int] ==
    LET q == p[1]
        e == p[3]
        drop == Max2(BitLen(q) - MantissaBits, MinExponent - e)
        kept == Shr(q, drop)
        st == p[2] \/ \E i \in 1..(drop - 1) : Bit(q, i) = 1
        up == Bit(q, drop) = 1 /\ (st \/ Bit(kept, 1) = 1)
    IN  IF drop <= 0 THEN Normalize(q, e)
        ELSE Normalize(IF up THEN BigAdd(kept, <<1>>) ELSE kept, e + drop)

Round(q, sticky, e) == RoundF[<<q, sticky, e>>]

\* The rounded result is too large for a float.
Overflows(f) == BitLen(f.m) + f.e > MaxExponent

\* int / int for y > 0: the correctly rounded quotient.  A quotient below
\* 2^(MinExponent - 2) rounds to 0.0.
TrueDivF[p \in BigNat \X BigNat] ==
    LET x == p[1]
        y == p[2]
        s == Max2(0, MantissaBits + 2 + BitLen(y) - BitLen(x))
        d == DivMod(Shl(x, s), y)
    IN  IF x = <<>> \/ BitLen(x) - BitLen(y) < MinExponent - 2 THEN FloatZero
        ELSE Round(d.q, d.r # <<>>, -s)

TrueDiv(x, y) == TrueDivF[<<x, y>>]

\* float + float
FloatAddF[p \in Float \X Float] ==
    LET f == p[1]
        g == p[2]
        e == Min2(f.e, g.e)
    IN  Round(BigAdd(Shl(f.m, f.e - e), Shl(g.m, g.e - e)), FALSE, e)

FloatAdd(f, g) == FloatAddF[<<f, g>>]

\* f < g
FloatLessF[p \in Float \X Float] ==
    LET f == p[1]
        g == p[2]
        e == Min2(f.e, g.e)
        a == Shl(f.m, f.e - e)
        b == Shl(g.m, g.e - e)
    IN  a # b /\ GE(b, a)

FloatLess(f, g) == FloatLessF[<<f, g>>]

\* float(n) for a small n >= 0
FloatOf(n) == Normalize(Limbs[n], 0)

\* The Python int n.
IntOf(n) == [neg |-> n < 0, mag |-> Limbs[Abs(n)]]

\* american > 0
IsPositive(american) == ~american.neg /\ american.mag # <<>>

----------------------------------------------------------------------------
(* Odds conversion.                                                        *)

\* _american_to_decimal(american)
AmericanToDecimal(american) ==
    IF IsPositive(american)
    THEN FloatAdd(TrueDiv(american.mag, Limbs[100]), FloatOf(1))
    ELSE FloatAdd(TrueDiv(Limbs[100], american.mag), FloatOf(1))

\* The exception _american_to_decimal(american) raises, NoErr when it returns.
AmericanToDecimalRaises(american) ==
    IF IsPositive(american)
    THEN IF Overflows(TrueDiv(american.mag, Limbs[100])) THEN "OverflowError"
         ELSE NoErr
    ELSE IF american.mag = <<>> THEN "ZeroDivisionError" ELSE NoErr

\* _american_to_probability(american)
AmericanToProbability(american) ==
    IF IsPositive(american)
    THEN TrueDiv(Limbs[100], BigAdd(american.mag, Limbs[100]))
    ELSE TrueDiv(american.mag, BigAdd(american.mag, Limbs[100]))

\* The exception _american_to_probability(american) raises: the divisor is at
\* least 100 and the quotient at most 1, so none.
AmericanToProbabilityRaises(american) == NoErr

\* The arguments the conversions are called on: every small int, odds as
\* bookmakers quote them, and ints beyond the range a float divides exactly.
QuotedAmericans == {IntOf(n) : n \in {-150, -110, -100, 100, 110, 250}}

HugeAmericans ==
    {[neg |-> TRUE, mag |-> Shl(Limbs[100], 53)],
     [neg |-> FALSE, mag |-> Shl(Limbs[100], 53)],
     [neg |-> TRUE, mag |-> Shl(Limbs[100], 54)],
     [neg |-> FALSE, mag |-> Shl(Limbs[1], 1100)]}

AmericanInputs ==
    {IntOf(n) : n \in (-MaxAmerican)..MaxAmerican} \cup QuotedAmericans
        \cup HugeAmericans

\* A call of OddsCollector._american_to_decimal.
AmericanToDecimalCall ==
    /\ \E american \in AmericanInputs :
          conv' = [fn |-> "_american_to_decimal",
                   american |-> american,
                   raised |-> AmericanToDecimalRaises(american),
                   value |-> IF AmericanToDecimalRaises(american) # NoErr THEN None
                             ELSE AmericanToDecimal(american)]
    /\ UNCHANGED <<storeVars, op, pc, odds_data, items, idx, stats, pending, err,
                   session, calls, pre, hist, analyzerVars>>

\* A call of OddsCollector._american_to_probability.
AmericanToProbabilityCall ==
    /\ \E american \in AmericanInputs :
          conv' = [fn |-> "_american_to_probability",
                   american |-> american,
                   raised |-> AmericanToProbabilityRaises(american),
                   value |-> IF AmericanToProbabilityRaises(american) # NoErr THEN None
                             ELSE AmericanToProbability(american)]
    /\ UNCHANGED <<storeVars, op, pc, odds_data, items, idx, stats, pending, err,
                   session, calls, pre, hist, analyzerVars>>

ConvNext == AmericanToDecimalCall \/ AmericanToProbabilityCall

----------------------------------------------------------------------------
(* Odds collector.                                                         *)

Outcome(name, price) == [name |-> name, price |-> price]
Market(key, outcomes) == [key |-> key, outcomes |-> outcomes]

\* The bookmakers an odds payload is built from.
Bookmakers ==
    { [title |-> "DraftKings",
       markets |-> <<Market("outrights", <<Outcome("New York Yankees", -150)>>)>>],
      [title |-> "FanDuel",
       markets |-> <<Market("outrights", <<Outcome("Boston Red Sox", 100),
                                           Outcome("YANKEES", 100)>>)>>],
      [title |-> "BetMGM",
       markets |-> <<Market("h2h", <<Outcome("New York Yankees", -150)>>),
                     Market("outrights", <<Outcome("New York Yankees", -150),
                                           Outcome("YANKEES", 100)>>)>>],
      [title |-> "Caesars",
       markets |-> <<Market("outrights", <<Outcome("New York Yankees", 0)>>)>>],
      [title |-> "PointsBet",
       markets |-> <<Market("outrights", <<Outcome("New York Yankees", 100),
                                           Outcome("YANKEES", 0)>>)>>] }

OddsEvents == [bookmakers : SeqsUpTo(Bookmakers, MaxBookmakers)]
Payloads == SeqsUpTo(OddsEvents, MaxEvents)

\* Mutant of IsYankees: the name is not lower-cased before the test.
IsYankeesCaseSensitive(name) == Contains(Chars("yankees"), Chars(name))

\* "yankees" in outcome.get("name", "").lower()
IsYankees(name) == Contains(Chars("yankees"), Lower(Chars(name)))

\* The innermost loop of extract_yankees_odds: the outcomes of one market.
RECURSIVE ExtractOutcomes(_, _)
ExtractOutcomes(bookmaker, outcomes) ==
    IF outcomes = <<>> THEN <<>>
    ELSE LET o == Head(outcomes)
             rest == ExtractOutcomes(bookmaker, Tail(outcomes))
         IN  IF IsYankees(o.name)
             THEN <<[bookmaker |-> bookmaker.title,
                     market |-> "World Series Winner",
                     team |-> o.name,
                     american_odds |-> o.price]>> \o rest
             ELSE rest

RECURSIVE ExtractMarkets(_, _)
ExtractMarkets(bookmaker, markets) ==
    IF markets = <<>> THEN <<>>
    ELSE (IF Head(markets).key = "outrights"
          THEN ExtractOutcomes(bookmaker, Head(markets).outcomes)
          ELSE <<>>)
         \o ExtractMarkets(bookmaker, Tail(markets))

RECURSIVE ExtractBookmakers(_)
ExtractBookmakers(bookmakers) ==
    IF bookmakers = <<>> THEN <<>>
    ELSE ExtractMarkets(Head(bookmakers), Head(bookmakers).markets)
         \o ExtractBookmakers(Tail(bookmakers))

\* extract_yankees_odds(odds_data)
RECURSIVE ExtractYankeesOdds(_)
ExtractYankeesOdds(data) ==
    IF data = <<>> THEN <<>>
    ELSE ExtractBookmakers(Head(data).bookmakers)
         \o ExtractYankeesOdds(Tail(data))

\* The keywords collect_and_store passes to OddsSnapshot(...).
OddsSnapshotKwargs ==
    {"bookmaker", "market", "american_odds", "decimal_odds",
     "implied_probability", "snapshot_at"}

\* The exception one pass of the for-loop body ends with, NoErr when none.
OddsRecordError(odds) ==
    IF AmericanToDecimalRaises(IntOf(odds.american_odds)) # NoErr
    THEN AmericanToDecimalRaises(IntOf(odds.american_odds))
    ELSE IF AmericanToProbabilityRaises(IntOf(odds.american_odds)) # NoErr
    THEN AmericanToProbabilityRaises(IntOf(odds.american_odds))
    ELSE IF ~ConstructorAccepts(OddsSnapshotKwargs, OddsSnapshotAttrs) THEN "TypeError"
    ELSE NoErr

\* snapshot = OddsSnapshot(bookmaker=..., ..., implied_probability=...)
NewSnapshot(odds) ==
    [bookmaker |-> odds.bookmaker,
     market |-> odds.market,
     american_odds |-> odds.american_odds,
     decimal_odds |-> AmericanToDecimal(IntOf(odds.american_odds)),
     implied_probability |-> AmericanToProbability(IntOf(odds.american_odds))]

OddsBegin ==
    /\ Len(snapshots) < MaxSnapshots
    /\ Begin("odds")

\* odds_data = self.get_championship_odds()
\* yankees_odds = self.extract_yankees_odds(odds_data)
OddsFetch ==
    /\ op = "odds"
    /\ pc = "fetch"
    /\ \/ /\ Raise("HTTPError")
          /\ UNCHANGED <<items, odds_data>>
       \/ \E payload \in Payloads :
            LET yankees_odds == ExtractYankeesOdds(payload)
            IN  /\ Len(snapshots) + Len(yankees_odds) <= MaxSnapshots
                /\ odds_data' = payload
                /\ items' = yankees_odds
                /\ pc' = IF yankees_odds = <<>> THEN "commit" ELSE "loop"
                /\ err' = NoErr
    /\ idx' = 1
    /\ stats' = ZeroStats
    /\ UNCHANGED <<conv, storeVars, op, pending, session, calls, pre, hist,
                   analyzerVars>>

\* One pass of "for odds in yankees_odds".
OddsRecord ==
    /\ op = "odds"
    /\ pc = "loop"
    /\ idx <= Len(items)
    /\ LET e == OddsRecordError(items[idx])
       IN  IF e # NoErr
           THEN /\ Raise(e)
                /\ UNCHANGED <<idx, stats, pending>>
           ELSE /\ pending' = Append(pending, NewSnapshot(items[idx]))
                /\ stats' = [stats EXCEPT !.stored = @ + 1]
                /\ idx' = idx + 1
                /\ pc' = IF idx = Len(items) THEN "commit" ELSE "loop"
                /\ err' = NoErr
    /\ UNCHANGED <<conv, storeVars, op, items, session, odds_data, calls, pre, hist,
                   analyzerVars>>

\* session.commit(); return stored.  The commit may fail in the database.
OddsCommit ==
    /\ op = "odds"
    /\ pc = "commit"
    /\ \/ /\ snapshots' = snapshots \o pending
          /\ pending' = <<>>
          /\ calls' = [calls EXCEPT !.commits = @ + 1]
          /\ pc' = "close"
          /\ UNCHANGED err
       \/ /\ Raise("OperationalError")
          /\ UNCHANGED <<snapshots, pending, calls>>
    /\ UNCHANGED <<conv, articles, scores, op, items, idx, stats, session, odds_data, pre,
                   hist, analyzerVars>>

OddsRollback == Rollback("odds")

OddsClose == Close("odds") /\ UNCHANGED hist

OddsNext ==
    \/ OddsBegin
    \/ OddsFetch
    \/ OddsRecord
    \/ OddsCommit
    \/ OddsRollback
    \/ OddsClose

----------------------------------------------------------------------------
(* Sentiment pipeline: one SentimentAnalyzer instance.                     *)

Texts == {"", " ", "  ", "a", " a", "b"}

\* Softmax rows the model can produce, in tenths: <<negative, neutral, positive>>.
ModelOutputs == {<<1, 2, 7>>, <<6, 3, 1>>}

\* What the outside world does to one analyze_text call: from_pretrained of the
\* tokenizer or of the model may fail (download, memory), inference may fail,
\* and the model produces some softmax row.
Envs == [fail : {"none", "tokenizer", "model", "inference"}, logits : ModelOutputs]

\* Mutant of TokenizerProperty: the tokenizer is loaded on every use.
TokenizerPropertyNoMemo(loaded, env) ==
    IF env.fail = "tokenizer"
    THEN [raised |-> TRUE, loaded |-> loaded, init |-> 0]
    ELSE [raised |-> FALSE, loaded |-> TRUE, init |-> 1]

\* The tokenizer property: load on first use, then reuse.
TokenizerProperty(loaded, env) ==
    IF ~loaded
    THEN IF env.fail = "tokenizer"
         THEN [raised |-> TRUE, loaded |-> FALSE, init |-> 0]
         ELSE [raised |-> FALSE, loaded |-> TRUE, init |-> 1]
    ELSE [raised |-> FALSE, loaded |-> TRUE, init |-> 0]

\* The model property: load on first use, then reuse.
ModelProperty(loaded, env) ==
    IF ~loaded
    THEN IF env.fail = "model"
         THEN [raised |-> TRUE, loaded |-> FALSE, init |-> 0]
         ELSE [raised |-> FALSE, loaded |-> TRUE, init |-> 1]
    ELSE [raised |-> FALSE, loaded |-> TRUE, init |-> 0]

\* if not text or not text.strip()
ShortCircuits(text) ==
    \/ text.none
    \/ text.chars = <<>>
    \/ Strip(text.chars) = <<>>

\* return {"positive": 0.0, "negative": 0.0, "neutral": 1.0, "compound": 0.0}
ShortCircuitScores ==
    [positive |-> 0, negative |-> 0, neutral |-> 10, compound |-> 0]

\* negative = scores[0][0]; neutral = scores[0][1]; positive = scores[0][2];
\* compound = positive - negative
ScoresOf(row) ==
    [positive |-> row[3], negative |-> row[1], neutral |-> row[2],
     compound |-> row[3] - row[1]]

\* analyze_text(text) with the instance in state (tok, mod): what it returns or
\* raises, the state it leaves, what it instantiated and whether it ran the model.
AnalyzeText(text, tok, mod, env) ==
    IF ShortCircuits(text)
    THEN [outcome |-> "returned", scores |-> ShortCircuitScores,
          tokenizer |-> tok, model |-> mod,
          tokInit |-> 0, modInit |-> 0, invoked |-> FALSE]
    ELSE LET t == TokenizerProperty(tok, env)
         IN  IF t.raised
             THEN [outcome |-> "raised", scores |-> NoScores,
                   tokenizer |-> t.loaded, model |-> mod,
                   tokInit |-> t.init, modInit |-> 0, invoked |-> FALSE]
             ELSE LET m == ModelProperty(mod, env)
                  IN  IF m.raised
                      THEN [outcome |-> "raised", scores |-> NoScores,
                            tokenizer |-> t.loaded, model |-> m.loaded,
                            tokInit |-> t.init, modInit |-> m.init,
                            invoked |-> FALSE]
                      ELSE IF env.fail = "inference"
                      THEN [outcome |-> "raised", scores |-> NoScores,
                            tokenizer |-> t.loaded, model |-> m.loaded,
                            tokInit |-> t.init, modInit |-> m.init,
                            invoked |-> TRUE]
                      ELSE [outcome |-> "returned", scores |-> ScoresOf(env.logits),
                            tokenizer |-> t.loaded, model |-> m.loaded,
                            tokInit |-> t.init, modInit |-> m.init,
                            invoked |-> TRUE]

\* The text analyze_article builds: title and description, each only when truthy,
\* joined by one space.
CombinedText(article) ==
    LET text_parts ==
            (IF Truthy(article.title) THEN <<Chars(article.title)>> ELSE <<>>)
            \o (IF Truthy(article.description)
                THEN <<Chars(article.description)>> ELSE <<>>)
    IN  Str(Join(text_parts))

\* analyze_article(article)
AnalyzeArticle(article, tok, mod, env) ==
    AnalyzeText(CombinedText(article), tok, mod, env)

\* The instance and the record of the call after a call r on text.
AnalyzerAfter(text, r) ==
    /\ tokenizer' = r.tokenizer
    /\ model' = r.model
    /\ inits' = [tokenizer |-> inits.tokenizer + r.tokInit,
                 model |-> inits.model + r.modInit]
    /\ lastCall' = [called |-> TRUE, text |-> text, outcome |-> r.outcome,
                    scores |-> r.scores,
                    loaded |-> (r.tokInit + r.modInit > 0),
                    invoked |-> r.invoked]

\* A caller runs analyzer.analyze_text(text).
AnalyzeTextCall ==
    /\ op = "idle"
    /\ \E s \in Texts \cup {None}, env \in Envs :
         LET text == IF s = None THEN NoneText ELSE Str(Chars(s))
         IN  AnalyzerAfter(text, AnalyzeText(text, tokenizer, model, env))
    /\ UNCHANGED <<conv, storeVars, op, pc, items, idx, stats, pending, err, session, odds_data,
                   calls, pre, hist>>

\* A caller runs analyzer.analyze_article(article).
AnalyzeArticleCall ==
    /\ op = "idle"
    /\ \E title \in Texts \cup {None}, description \in Texts \cup {None},
          env \in Envs :
         LET article == [id |-> 0, url |-> None, title |-> title,
                         description |-> description]
         IN  AnalyzerAfter(CombinedText(article),
                           AnalyzeArticle(article, tokenizer, model, env))
    /\ UNCHANGED <<conv, storeVars, op, pc, items, idx, stats, pending, err, session, odds_data,
                   calls, pre, hist>>

AnalyzerNext ==
    \/ AnalyzeTextCall
    \/ AnalyzeArticleCall

----------------------------------------------------------------------------
(* The batch: analyze_unprocessed_articles.                                *)

\* The rows of a set of articles in id order.
RECURSIVE ById(_)
ById(rows) ==
    IF rows = {} THEN <<>>
    ELSE LET first == CHOOSE a \in rows : \A b \in rows : a.id <= b.id
         IN  <<first>> \o ById(rows \ {first})

\* Mutant of Unprocessed: the query has no filter and returns every article.
UnprocessedNoFilter(arts, scs) == arts

\* session.query(Article).outerjoin(SentimentScore)
\*        .filter(SentimentScore.id.is_(None)).all()
Unprocessed(arts, scs) ==
    {a \in arts : ~\E sc \in scs : sc.article_id = a.id}

\* The keywords the batch passes to SentimentScore(...).
SentimentScoreKwargs ==
    {"article_id", "positive", "negative", "neutral", "compound", "model_used"}

\* sentiment = SentimentScore(article_id=article.id, positive=..., ...)
NewScore(article, sc) ==
    [article_id |-> article.id,
     positive |-> sc.positive, negative |-> sc.negative,
     neutral |-> sc.neutral, compound |-> sc.compound,
     model_used |-> "cardiffnlp/twitter-roberta-base-sentiment-latest"]

\* Mutant of ExceptInLoop: the loop has no handler of its own.
ExceptInLoopReraise == "raise"

\* What the handler of the inner try does with an exception of one article:
\* it counts the article as skipped and the loop goes on.
ExceptInLoop == "continue"

\* article_id is unique: the flush of the pending scores fails when one of them
\* is for an article that already has a score.
UniqueViolation(committed, rows) ==
    \/ \E i \in 1..Len(rows) : \E sc \in committed :
           sc.article_id = rows[i].article_id
    \/ \E i, j \in 1..Len(rows) :
           i # j /\ rows[i].article_id = rows[j].article_id

AnalyzeBegin == Begin("analyze")

\* articles = session.query(...).all(): the query may fail in the database.
AnalyzeQuery ==
    /\ op = "analyze"
    /\ pc = "fetch"
    /\ \/ /\ Raise("OperationalError")
          /\ UNCHANGED items
       \/ LET rows == ById(Unprocessed(articles, scores))
          IN  /\ items' = rows
              /\ pc' = IF rows = <<>> THEN "commit" ELSE "loop"
              /\ err' = NoErr
    /\ idx' = 1
    /\ stats' = ZeroStats
    /\ UNCHANGED <<conv, storeVars, op, pending, session, odds_data, calls, pre, hist,
                   analyzerVars>>

\* One pass of "for article in articles", its try and its except.
AnalyzeRecord ==
    /\ op = "analyze"
    /\ pc = "loop"
    /\ idx <= Len(items)
    /\ \E env \in Envs :
         LET article == items[idx]
             r == AnalyzeArticle(article, tokenizer, model, env)
             failed == \/ r.outcome = "raised"
                       \/ ~ConstructorAccepts(SentimentScoreKwargs,
                                              SentimentScoreAttrs)
         IN  /\ AnalyzerAfter(CombinedText(article), r)
             /\ IF failed /\ ExceptInLoop # "continue"
                THEN /\ Raise("Exception")
                     /\ UNCHANGED <<idx, stats, pending>>
                ELSE /\ stats' = IF failed
                                 THEN [stats EXCEPT !.skipped = @ + 1]
                                 ELSE [stats EXCEPT !.processed = @ + 1]
                     /\ pending' = IF failed THEN pending
                                   ELSE Append(pending, NewScore(article, r.scores))
                     /\ idx' = idx + 1
                     /\ pc' = IF idx = Len(items) THEN "commit" ELSE "loop"
                     /\ err' = NoErr
    /\ UNCHANGED <<conv, storeVars, op, items, session, odds_data, calls, pre, hist>>

\* Mutant of AnalyzeCommit: the batch returns without committing.
AnalyzeCommitMissing ==
    /\ op = "analyze"
    /\ pc = "commit"
    /\ pending' = <<>>
    /\ calls' = [calls EXCEPT !.commits = @ + 1]
    /\ pc' = "close"
    /\ UNCHANGED <<conv, storeVars, op, odds_data, items, idx, stats, err, session, pre,
                   hist, analyzerVars>>

\* session.commit(); return stats.  The flush checks the unique constraint and
\* the commit may fail in the database.
AnalyzeCommit ==
    /\ op = "analyze"
    /\ pc = "commit"
    /\ \/ /\ ~UniqueViolation(scores, pending)
          /\ scores' = scores \cup PendingSet
          /\ pending' = <<>>
          /\ calls' = [calls EXCEPT !.commits = @ + 1]
          /\ pc' = "close"
          /\ UNCHANGED err
       \/ /\ UniqueViolation(scores, pending)
          /\ Raise("IntegrityError")
          /\ UNCHANGED <<scores, pending, calls>>
       \/ /\ Raise("OperationalError")
          /\ UNCHANGED <<scores, pending, calls>>
    /\ UNCHANGED <<conv, articles, snapshots, op, items, idx, stats, session, odds_data, pre,
                   hist, analyzerVars>>

AnalyzeRollback == Rollback("analyze")

\* hist.returned: an earlier run returned and no article was stored since;
\* hist.clean: one of those runs skipped no article.
AnalyzeClose ==
    /\ Close("analyze")
    /\ hist' = IF err = NoErr
               THEN [returned |-> TRUE, clean |-> hist.clean \/ stats.skipped = 0]
               ELSE hist

AnalyzeNext ==
    \/ AnalyzeBegin
    \/ AnalyzeQuery
    \/ AnalyzeRecord
    \/ AnalyzeCommit
    \/ AnalyzeRollback
    \/ AnalyzeClose

----------------------------------------------------------------------------
(* Specifications.                                                         *)

Next == NewsNext \/ OddsNext \/ AnalyzeNext

Spec == Init /\ [][Next]_vars

\* A call that has started runs on to its end: the program is sequential and
\* nothing in it waits for another call.
Step ==
    \/ NewsFetch \/ NewsRecord \/ NewsCommit \/ NewsRollback \/ NewsClose
    \/ OddsFetch \/ OddsRecord \/ OddsCommit \/ OddsRollback \/ OddsClose
    \/ AnalyzeQuery \/ AnalyzeRecord \/ AnalyzeCommit \/ AnalyzeRollback
    \/ AnalyzeClose

FairSpec == Spec /\ WF_vars(Step)

\* The collectors alone, and the runs that touch articles and their scores: the
\* operations meet only in the store, and each writes its own tables.
SpecNews == Init /\ [][NewsNext]_vars
SpecOdds == Init /\ [][OddsNext]_vars
SpecCollect == Init /\ [][NewsNext \/ OddsNext]_vars
SpecSentiment == Init /\ [][NewsNext \/ AnalyzeNext]_vars

\* One analyzer instance used directly and by the batch.
SpecAnalyzer == Init /\ [][AnalyzerNext \/ AnalyzeNext]_vars

\* The conversions called on their own.
SpecConv == Init /\ [][ConvNext]_vars

----------------------------------------------------------------------------
(* Properties.                                                             *)

\* The call is about to return normally: the commit is done, no exception.
Returning(o) == op = o /\ pc = "close" /\ err = NoErr

\* The call is about to re-raise an exception.
Raising(o) == op = o /\ pc = "close" /\ err # NoErr

WithoutUrl(feed) == {i \in 1..Len(feed) : feed[i].url \in {None, ""}}

\* The URLs of a feed that were stored when the call started.
StoredUrls(feed) ==
    {i \in 1..Len(feed) : \E a \in pre.articles : a.url = feed[i].url}

\* C2 as stated: a news run whose feed overlaps what is stored returns
\* new + duplicates = fetched, and duplicates = fetched when the feed holds no URL
\* that was not already stored.
C2_Original ==
    (Returning("news") /\ StoredUrls(items) # {}) =>
        /\ stats.new + stats.duplicates = stats.fetched
        /\ (\A i \in 1..Len(items) : i \in WithoutUrl(items) \cup StoredUrls(items))
              => stats.duplicates = stats.fetched

\* C2 amended: every news run that returns has
\* new + duplicates = fetched - (records without a URL), and
\* duplicates = fetched - (records without a URL) when the feed holds no URL that
\* was not already stored.
C2_Dedup ==
    Returning("news") =>
        /\ stats.new + stats.duplicates + Cardinality(WithoutUrl(items))
              = stats.fetched
        /\ (\A i \in 1..Len(items) : i \in WithoutUrl(items) \cup StoredUrls(items))
              => stats.duplicates + Cardinality(WithoutUrl(items)) = stats.fetched

\* C2 witness: a returning run whose feed holds a stored URL and a record without URL.
C2_Witness ==
    /\ Returning("news")
    /\ stats.duplicates = 1
    /\ Cardinality(WithoutUrl(items)) = 1

\* C3: no article has two SentimentScore rows, and the batch never holds a new
\* score for an article that already has one, committed or pending.
C3_OneScorePerArticle ==
    /\ \A x \in scores : \A y \in scores : x.article_id = y.article_id => x = y
    /\ op = "analyze" =>
          \A i \in 1..Len(pending) :
              /\ \A x \in scores : x.article_id # pending[i].article_id
              /\ \A j \in 1..Len(pending) :
                    pending[j].article_id = pending[i].article_id => i = j

\* C3 witness: an analysis run that follows an earlier one returns having scored an
\* article while another article already had its score.
C3_Witness ==
    /\ Returning("analyze")
    /\ hist.returned
    /\ pre.scores # {}
    /\ stats.processed > 0

\* The loop of a batch has ended without an exception of the batch.
BatchDone == op = "analyze" /\ pc \in {"commit", "close"} /\ err = NoErr

C5_AllOrNothing ==
    op \in {"news", "odds"} =>
        /\ calls.commits = 0 => Store = pre
        /\ err # NoErr => pc \in {"rollback", "close"}
        /\ pc = "close" /\ err # NoErr =>
              /\ Store = pre
              /\ calls.commits = 0
              /\ calls.rollbacks = 1
              /\ pending = <<>>

\* C5 witness: an odds run raises on its second record after adding the first.
C5_Witness ==
    /\ Raising("odds")
    /\ err = "ZeroDivisionError"
    /\ idx = 2

\* The articles without a score when the current call started.
UnscoredAtStart ==
    {a \in pre.articles : \A x \in pre.scores : x.article_id # a.id}

\* In a returning batch: the counters cover the selected articles, and exactly
\* the processed ones got a score.
C6_Return ==
    Returning("analyze") =>
        /\ stats.processed + stats.skipped = Cardinality(UnscoredAtStart)
        /\ pre.scores \subseteq scores
        /\ Cardinality(scores \ pre.scores) = stats.processed
        /\ \A x \in scores \ pre.scores :
              \E a \in UnscoredAtStart : a.id = x.article_id

\* A pass of the loop whose scoring raised: the article is counted as skipped, no
\* score is added for it, no exception leaves the loop, the loop goes on.
C6_Skip ==
    (op = "analyze" /\ pc = "loop" /\ lastCall'.outcome = "raised"
       /\ <<idx, pc>>' # <<idx, pc>>) =>
        /\ stats'.skipped = stats.skipped + 1
        /\ stats'.processed = stats.processed
        /\ pending' = pending
        /\ err' = NoErr
        /\ idx' = idx + 1
        /\ pc' \in {"loop", "commit"}

\* C6: a scoring exception never aborts the batch; processed + skipped is the
\* number of articles without a score at the start; the scored ones are committed.
C6_PerArticleIsolation == [](C6_Return) /\ [][C6_Skip]_vars

\* C6 witness: a batch returns with one article skipped and another one scored.
C6_Witness ==
    /\ Returning("analyze")
    /\ stats.skipped > 0
    /\ stats.processed > 0
    /\ Cardinality(scores \ pre.scores) = stats.processed

\* One session per call, open exactly while the call runs, and a commit or a
\* rollback (never both) before its close.
C7_Session ==
    /\ calls.opened <= 1
    /\ calls.commits + calls.rollbacks <= 1
    /\ op # "idle" => session = "open" /\ calls.opened = 1
    /\ op = "idle" => session # "open"
    /\ pc = "close" => calls.commits + calls.rollbacks = 1
    /\ pc = "close" => (calls.commits = 1 <=> err = NoErr)

\* C7: every call opens one session, which is closed in the end on every path,
\* after a commit or a rollback and never after both.
C7_SessionClosed == [](C7_Session) /\ (session = "open" ~> session = "closed")

\* C7 witness: a call whose commit failed has rolled back and is about to close.
C7_Witness ==
    /\ pc = "close"
    /\ session = "open"
    /\ err = "OperationalError"
    /\ idx > Len(items)
    /\ calls = [opened |-> 1, commits |-> 0, rollbacks |-> 1]

\* config.ODDS_MARKET
ODDS_MARKET == "outrights"

\* The (event, bookmaker, market, outcome) places of a payload whose market is
\* the configured one and whose outcome names the Yankees in any letter case.
Matches(data) ==
    UNION { UNION { UNION {
        {<<e, b, m, o>> :
            o \in {k \in 1..Len(data[e].bookmakers[b].markets[m].outcomes) :
                     /\ data[e].bookmakers[b].markets[m].key = ODDS_MARKET
                     /\ data[e].bookmakers[b].markets[m].outcomes[k].name
                           \in {"New York Yankees", "YANKEES"}}}
        : m \in 1..Len(data[e].bookmakers[b].markets)}
        : b \in 1..Len(data[e].bookmakers)}
        : e \in 1..Len(data)}

\* The float f is within 2^-50 of the fraction n/d (0 < n, d < 2^15):
\* |f*d - n| * 2^50 <= d, with both sides scaled to integers.
Within(f, n, d) ==
    LET k == Max2(0, -f.e)
        fd == MulSmall(Shl(f.m, f.e + k), d)
        nk == Shl(Limbs[n], k)
        diff == IF GE(fd, nk) THEN BigSub(fd, nk) ELSE BigSub(nk, fd)
    IN  GE(Shl(Limbs[d], k), Shl(diff, 50))

\* decimal_odds and implied_probability are the documented values of the row's
\* own american_odds, up to float rounding: a/100 + 1 and 100/(a+100) for a > 0,
\* 100/|a| + 1 and |a|/(|a|+100) otherwise.
Documented(row) ==
    LET a == row.american_odds
        m == IF a < 0 THEN -a ELSE a
    IN  IF a > 0
        THEN /\ Within(row.decimal_odds, a + 100, 100)
             /\ Within(row.implied_probability, 100, a + 100)
        ELSE /\ Within(row.decimal_odds, 100 + m, m)
             /\ Within(row.implied_probability, m, m + 100)

C9_Original ==
    (conv.fn # "none" /\ conv.american.mag # <<>>) =>
        /\ conv.raised = NoErr
        /\ conv.fn = "_american_to_decimal" =>
              /\ FloatLess(FloatOf(1), conv.value)
              /\ conv.american = IntOf(100) => conv.value = FloatOf(2)
        /\ conv.fn = "_american_to_probability" =>
              /\ FloatLess(FloatZero, conv.value)
              /\ FloatLess(conv.value, FloatOf(1))
              /\ conv.american = IntOf(100) =>
                    conv.value = TrueDiv(Limbs[1], Limbs[2])
              /\ conv.american = IntOf(-150) =>
                    conv.value = TrueDiv(Limbs[3], Limbs[5])

\* Empty or whitespace-only text, or no text at all.
IsBlank(text) == text.none \/ \A i \in 1..Len(text.chars) : text.chars[i] = " "

\* C10: tokenizer and model are each instantiated at most once, and a call on blank
\* text returns {positive 0, negative 0, neutral 1, compound 0} without
\* instantiating or running the model.
C10_LazyAndShortCircuit ==
    /\ inits.tokenizer <= 1
    /\ inits.model <= 1
    /\ (lastCall.called /\ IsBlank(lastCall.text)) =>
          /\ lastCall.outcome = "returned"
          /\ lastCall.scores =
                [positive |-> 0, negative |-> 0, neutral |-> 10, compound |-> 0]
          /\ ~lastCall.loaded
          /\ ~lastCall.invoked

\* C10 witness: a whitespace-only call on an instance that has loaded both.
C10_Witness ==
    /\ lastCall.called
    /\ lastCall.text = Str(<<" ", " ">>)
    /\ tokenizer /\ model
    /\ inits = [tokenizer |-> 1, model |-> 1]

====
